---- MODULE Spec2Model ----
(***************************************************************************)
(* A model of md_server.py: a single-process HTTP server that lists,      *)
(* renders, edits and saves the Markdown files under SCRIPT_DIR.          *)
(*                                                                         *)
(* Strings are sequences of one-character strings, so that startswith,    *)
(* endswith, replace, lstrip, split and sort are computed as Python       *)
(* computes them.  The token "U4E2D" stands for the single character      *)
(* U+4E2D (outside Latin-1); "xC3", "xA9" and "xFF" are single bytes of a *)
(* request body or of a stored file; "E9" is the character U+00E9; "LF", "CR", *)
(* "BSL" and "BT" are line feed, carriage return, backslash and backtick. *)
(***************************************************************************)
EXTENDS Integers, Sequences, FiniteSets, TLC

\* Body(v), with the value v computed once however often Body uses it
Bind(v, Body(_)) == CHOOSE out \in {Body(x) : x \in {v}} : TRUE

\* ------------------------------------------------------------------------
\* str methods used by the handlers

StartsWith(s, p) ==
    /\ Len(p) <= Len(s)
    /\ SubSeq(s, 1, Len(p)) = p

EndsWith(s, p) ==
    /\ Len(p) <= Len(s)
    /\ SubSeq(s, Len(s) - Len(p) + 1, Len(s)) = p

\* the index of the first occurrence of old in s, 0 when there is none
Find(s, old) ==
    LET hits == {i \in 1..(Len(s) - Len(old) + 1) : SubSeq(s, i, i + Len(old) - 1) = old}
    IN IF hits = {} THEN 0 ELSE CHOOSE i \in hits : \A j \in hits : i <= j

\* s.replace(old, new, 1)
ReplaceFirst(s, old, new) ==
    LET i == Find(s, old)
    IN IF i = 0 THEN s
       ELSE SubSeq(s, 1, i - 1) \o new \o SubSeq(s, i + Len(old), Len(s))

\* s.replace(ch, new) for a one-character ch: every occurrence, left to right
RECURSIVE ReplaceAll(_, _, _)
ReplaceAll(s, ch, new) ==
    IF s = <<>> THEN <<>>
    ELSE (IF Head(s) = ch THEN new ELSE <<Head(s)>>) \o ReplaceAll(Tail(s), ch, new)

\* s.lstrip(ch)
RECURSIVE LStrip(_, _)
LStrip(s, ch) ==
    IF s # <<>> /\ Head(s) = ch THEN LStrip(Tail(s), ch) ELSE s

\* s.split(ch): the pieces between the occurrences of ch (empty pieces kept)
RECURSIVE Split(_, _)
Split(s, ch) ==
    LET i == Find(s, <<ch>>)
    IN IF i = 0 THEN <<s>>
       ELSE <<SubSeq(s, 1, i - 1)>> \o Split(SubSeq(s, i + 1, Len(s)), ch)

\* sep.join(parts)
RECURSIVE Join(_, _)
Join(parts, sep) ==
    IF parts = <<>> THEN <<>>
    ELSE IF Len(parts) = 1 THEN parts[1]
    ELSE parts[1] \o sep \o Join(Tail(parts), sep)

\* ord(c) for the characters of the model
Ord(c) ==
    CASE c = "LF" -> 10
      [] c = "CR" -> 13
      [] c = " " -> 32
      [] c = "#" -> 35
      [] c = "$" -> 36
      [] c = "%" -> 37
      [] c = "." -> 46
      [] c = "/" -> 47
      [] c = "2" -> 50
      [] c = "3" -> 51
      [] c = "4" -> 52
      [] c = "8" -> 56
      [] c = "?" -> 63
      [] c = "A" -> 65
      [] c = "B" -> 66
      [] c = "D" -> 68
      [] c = "E" -> 69
      [] c = "F" -> 70
      [] c = "H" -> 72
      [] c = "BSL" -> 92
      [] c = "BT" -> 96
      [] c = "a" -> 97
      [] c = "b" -> 98
      [] c = "c" -> 99
      [] c = "d" -> 100
      [] c = "e" -> 101
      [] c = "g" -> 103
      [] c = "h" -> 104
      [] c = "i" -> 105
      [] c = "l" -> 108
      [] c = "m" -> 109
      [] c = "n" -> 110
      [] c = "o" -> 111
      [] c = "p" -> 112
      [] c = "s" -> 115
      [] c = "t" -> 116
      [] c = "u" -> 117
      [] c = "v" -> 118
      [] c = "w" -> 119
      [] c = "x" -> 120
      [] c = "E9" -> 233
      [] c = "U4E2D" -> 20013

\* str order: by code point, a proper prefix first
RECURSIVE StrLess(_, _)
StrLess(s, t) ==
    IF t = <<>> THEN FALSE
    ELSE IF s = <<>> THEN TRUE
    ELSE IF Head(s) # Head(t) THEN Ord(Head(s)) < Ord(Head(t))
    ELSE StrLess(Tail(s), Tail(t))

\* list.sort(): the elements in ascending order (the list holds no duplicates)
RECURSIVE Insert(_, _)
Insert(x, sorted) ==
    IF sorted = <<>> THEN <<x>>
    ELSE IF StrLess(x, Head(sorted)) THEN <<x>> \o sorted
    ELSE <<Head(sorted)>> \o Insert(x, Tail(sorted))

RECURSIVE Sort(_)
Sort(list) ==
    IF list = <<>> THEN <<>> ELSE Insert(Head(list), Sort(Tail(list)))

\* ------------------------------------------------------------------------
\* Request paths: urllib.parse.urlparse(self.path).path, then unquote

\* the path component of a request target: what precedes the first ? or #
UrlPath(raw) ==
    LET cut == {i \in 1..Len(raw) : raw[i] \in {"?", "#"}}
    IN IF cut = {} THEN raw
       ELSE SubSeq(raw, 1, (CHOOSE i \in cut : \A j \in cut : i <= j) - 1)

\* the percent-escapes the requests of the model use, each with the character
\* its bytes decode to (%E4%B8%AD is the UTF-8 encoding of U+4E2D)
PercentCodes ==
    { <<<<"2", "F">>, "/">>,
      <<<<"2", "E">>, ".">>,
      <<<<"3", "F">>, "?">>,
      <<<<"E", "4", "%", "B", "8", "%", "A", "D">>, "U4E2D">> }

\* urllib.parse.unquote
RECURSIVE Unquote(_)
Unquote(s) ==
    IF s = <<>> THEN <<>>
    ELSE IF Head(s) = "%" /\ \E pc \in PercentCodes : StartsWith(Tail(s), pc[1])
         THEN LET pc == CHOOSE q \in PercentCodes : StartsWith(Tail(s), q[1])
              IN <<pc[2]>> \o Unquote(SubSeq(s, 2 + Len(pc[1]), Len(s)))
         ELSE <<Head(s)>> \o Unquote(Tail(s))

EDIT == <<"/", "e", "d", "i", "t", "/">>
SAVE == <<"/", "s", "a", "v", "e", "/">>
MD == <<".", "m", "d">>

\* do_GET with the .md test placed before the /edit/ test
RouteGETViewerFirst(path) ==
    IF path = <<"/">> \/ path = <<>>
    THEN [action |-> "index", filename |-> <<>>]
    ELSE IF EndsWith(path, MD)
    THEN [action |-> "viewer", filename |-> LStrip(path, "/")]
    ELSE IF StartsWith(path, EDIT) /\ EndsWith(path, MD)
    THEN [action |-> "editor", filename |-> ReplaceFirst(path, EDIT, <<>>)]
    ELSE [action |-> "static", filename |-> <<>>]

\* do_GET's if/elif chain: the action chosen and the filename handed to it
RouteGET(path) ==
    IF path = <<"/">> \/ path = <<>>
    THEN [action |-> "index", filename |-> <<>>]
    ELSE IF StartsWith(path, EDIT) /\ EndsWith(path, MD)
    THEN [action |-> "editor", filename |-> ReplaceFirst(path, EDIT, <<>>)]
    ELSE IF EndsWith(path, MD)
    THEN [action |-> "viewer", filename |-> LStrip(path, "/")]
    ELSE [action |-> "static", filename |-> <<>>]

\* do_POST's single if: a path matching no route selects nothing
RoutePOST(path) ==
    IF StartsWith(path, SAVE) /\ EndsWith(path, MD)
    THEN [action |-> "save", filename |-> ReplaceFirst(path, SAVE, <<>>)]
    ELSE [action |-> "none", filename |-> <<>>]

\* ------------------------------------------------------------------------
\* The filesystem.  A location is the sequence of the names leading to it
\* from "/"; SCRIPT_DIR is /w.  The directories and the one symbolic link
\* are fixed; the regular files and their bytes are the state (fs).

n_w == <<"w">>
n_sub == <<"s", "u", "b">>
n_hid == <<".", "h">>
n_etc == <<"e", "t", "c">>
n_ln == <<"l", "n">>
n_dmd == <<"d", ".", "m", "d">>
n_notes == <<"n", ".", "m", "d">>
n_c == <<"c", ".", "m", "d">>
n_b == <<"b", ".", "m", "d">>
n_dotx == <<".", "x", ".", "m", "d">>
n_txt == <<"a", ".", "t", "x", "t">>
n_secret == <<"s", ".", "m", "d">>
n_passwd == <<"p", "a", "s", "s", "w", "d">>
n_u == <<"U4E2D", ".", "m", "d">>

SCRIPT_DIR == <<n_w>>

\* /, /w, /w/sub, /w/.h, /w/sub/.h, /w/d.md (a directory named like a document), /etc
Dirs ==
    { <<>>, <<n_w>>, <<n_w, n_sub>>, <<n_w, n_hid>>, <<n_w, n_sub, n_hid>>,
      <<n_w, n_dmd>>, <<n_etc>> }

\* /w/ln -> /etc
Links == [p \in {<<n_w, n_ln>>} |-> <<n_etc>>]

Parent(loc) == IF loc = <<>> THEN <<>> ELSE SubSeq(loc, 1, Len(loc) - 1)

Follow(loc) == IF loc \in DOMAIN Links THEN Links[loc] ELSE loc

\* SCRIPT_DIR / filename: an absolute filename replaces SCRIPT_DIR
JoinPath(filename) ==
    IF filename # <<>> /\ Head(filename) = "/"
    THEN [start |-> <<>>, names |-> Split(filename, "/")]
    ELSE [start |-> SCRIPT_DIR, names |-> Split(filename, "/")]

\* str(SCRIPT_DIR / filename), as exception texts show it
PathText(filename) ==
    IF filename # <<>> /\ Head(filename) = "/" THEN filename
    ELSE <<"/">> \o n_w \o <<"/">> \o filename

\* Path.resolve() (os.path.realpath, not strict): "" and "." are dropped, ".."
\* steps to the parent, a symbolic link is followed where there is one, and a
\* name that does not exist is kept as written
RECURSIVE Realpath(_, _)
Realpath(loc, names) ==
    IF names = <<>> THEN loc
    ELSE LET nm == Head(names)
         IN IF nm = <<>> \/ nm = <<".">> THEN Realpath(loc, Tail(names))
            ELSE IF nm = <<".", ".">> THEN Realpath(Parent(loc), Tail(names))
            ELSE Realpath(Follow(Append(loc, nm)), Tail(names))

Resolve(filename) ==
    Bind(JoinPath(filename), LAMBDA j : Realpath(j.start, j.names))

NoEntry == <<<<"ENOENT">>>>

\* the kernel's path walk, which open() and stat() use: as Realpath, but every
\* name on the way must be looked up in an existing directory
RECURSIVE Lookup(_, _)
Lookup(loc, names) ==
    IF names = <<>> THEN loc
    ELSE LET nm == Head(names)
         IN IF loc \notin Dirs THEN NoEntry
            ELSE IF nm = <<>> \/ nm = <<".">> THEN Lookup(loc, Tail(names))
            ELSE IF nm = <<".", ".">> THEN Lookup(Parent(loc), Tail(names))
            ELSE Lookup(Follow(Append(loc, nm)), Tail(names))

\* the location open(SCRIPT_DIR / filename) reaches, or NoEntry
Locate(filename) ==
    Bind(JoinPath(filename), LAMBDA j : Lookup(j.start, j.names))

\* save_markdown without its security check, as the two GET handlers are
InsideRootUnchecked(loc) == TRUE

\* filepath.resolve().relative_to(SCRIPT_DIR.resolve()) raises no ValueError
InsideRoot(loc) ==
    LET root == Realpath(<<>>, SCRIPT_DIR)
    IN Len(loc) >= Len(root) /\ SubSeq(loc, 1, Len(root)) = root

\* ------------------------------------------------------------------------
\* File contents: bytes on disk, text in the handlers

DecodeError == <<"UnicodeDecodeError">>

\* bytes.decode("utf-8"): an ASCII byte is its character, xC3 xA9 is U+00E9,
\* and xFF or a lead byte without its continuation raises UnicodeDecodeError
RECURSIVE Utf8Decode(_)
Utf8Decode(bytes) ==
    IF bytes = <<>> THEN <<>>
    ELSE IF Head(bytes) = "xFF" \/ Head(bytes) = "xA9" THEN DecodeError
    ELSE IF Head(bytes) = "xC3"
         THEN IF Len(bytes) >= 2 /\ bytes[2] = "xA9"
              THEN LET rest == Utf8Decode(SubSeq(bytes, 3, Len(bytes)))
                   IN IF rest = DecodeError THEN DecodeError ELSE <<"E9">> \o rest
              ELSE DecodeError
    ELSE LET rest == Utf8Decode(Tail(bytes))
         IN IF rest = DecodeError THEN DecodeError ELSE <<Head(bytes)>> \o rest

\* str.encode("utf-8")
Utf8Encode(text) == ReplaceAll(text, "E9", <<"xC3", "xA9">>)

\* os.linesep of the POSIX systems the script's shebang line addresses
linesep == <<"LF">>

\* text-mode write (newline=None): every line feed becomes os.linesep
WriteNewlines(text) == ReplaceAll(text, "LF", linesep)

\* text-mode read (newline=None): CR LF and a lone CR are read as a line feed
RECURSIVE ReadNewlines(_)
ReadNewlines(text) ==
    IF text = <<>> THEN <<>>
    ELSE IF Head(text) = "CR"
         THEN IF Len(text) >= 2 /\ text[2] = "LF"
              THEN <<"LF">> \o ReadNewlines(SubSeq(text, 3, Len(text)))
              ELSE <<"LF">> \o ReadNewlines(Tail(text))
    ELSE <<Head(text)>> \o ReadNewlines(Tail(text))

\* open(filepath, "r", encoding="utf-8").read() of the bytes stored
ReadText(bytes) ==
    LET d == Utf8Decode(bytes) IN IF d = DecodeError THEN DecodeError ELSE ReadNewlines(d)

\* what open(filepath, "w", encoding="utf-8").write(content) stores
StoredBytes(content) == Utf8Encode(WriteNewlines(content))

\* the three replace passes with the backslash pass last
EscapeBackslashLast(content) ==
    ReplaceAll(ReplaceAll(ReplaceAll(content, "BT", <<"BSL", "BT">>),
                          "$", <<"BSL", "$">>),
               "BSL", <<"BSL", "BSL">>)

\* serve_editor's content_escaped: three replace passes, the backslash first
Escape(content) ==
    ReplaceAll(ReplaceAll(ReplaceAll(content, "BSL", <<"BSL", "BSL">>),
                          "BT", <<"BSL", "BT">>),
               "$", <<"BSL", "$">>)

\* the value a browser gives <textarea>embedded</textarea>: the text as it
\* stands (backslashes mean nothing to HTML), less one leading line feed
TextareaValue(embedded) ==
    IF embedded # <<>> /\ Head(embedded) = "LF" THEN Tail(embedded) ELSE embedded

\* markdown.markdown(content, ...): the library's fragment for this text
Markdown(content) == <<"<md>">> \o content \o <<"</md>">>

\* ------------------------------------------------------------------------
\* State

VARIABLES
    fs,        \* the regular files: location -> bytes
    listen,    \* the listening socket's queue: connections not yet accepted
    conn,      \* per client: its connection, the request on it, the handler's result
    page,      \* per editor page: the Editor Client Script's state
    lastSave   \* location -> the body of the save to it the server handled last

vars == <<fs, listen, conn, page, lastSave>>

\* bounds of the model
NumPages == 1
MaxLen == 3

RawClient == 0
Pages == 1..NumPages
Clients == {RawClient} \cup Pages

Blank ==
    [st |-> "idle", method |-> "", raw |-> <<>>, body |-> <<>>, hasLen |-> FALSE,
     action |-> "", filename |-> <<>>, opened |-> {}, existed |-> FALSE,
     status |-> 0, msg |-> <<>>, content |-> <<>>]

Request(method, raw, body, hasLen) ==
    [Blank EXCEPT !.st = "queued", !.method = method, !.raw = raw,
                  !.body = body, !.hasLen = hasLen]

\* ------------------------------------------------------------------------
\* Responses

Latin1(message) == \A i \in 1..Len(message) : message[i] # "U4E2D"

\* send_error(code, message): the status line is encoded as Latin-1, strictly;
\* a message it cannot encode raises out of the handler and nothing is sent
SendError(r, code, message) ==
    IF Latin1(message)
    THEN [r EXCEPT !.st = "answered", !.status = code, !.msg = message]
    ELSE [r EXCEPT !.st = "answered", !.status = 0, !.msg = <<>>]

\* send_response(code) ... wfile.write(payload)
SendPage(r, code, payload) ==
    [r EXCEPT !.st = "answered", !.status = code, !.msg = payload]

NotFound(filename) == <<"File not found: ">> \o filename

ErrorReading(text) == <<"Error reading file: ">> \o text

IsADirectory(filename) == <<"[Errno 21] Is a directory: ">> \o PathText(filename)

CantDecode == <<"'utf-8' codec can't decode byte">>

\* filepath.exists(), for the location loc that the path leads to
Exists(files, loc) == loc # NoEntry /\ (loc \in files \/ loc \in Dirs)

\* ------------------------------------------------------------------------
\* serve_index

Name(loc) == loc[Len(loc)]

Hidden(name) == StartsWith(name, <<".">>)

\* os.path.relpath(os.path.join(root, file), SCRIPT_DIR)
RelPath(loc) == Join(SubSeq(loc, Len(SCRIPT_DIR) + 1, Len(loc)), <<"/">>)

\* a list holding the elements of a set, in whatever order the directory scan gives
RECURSIVE ScanOrder(_)
ScanOrder(S) ==
    IF S = {} THEN <<>>
    ELSE LET x == CHOOSE y \in S : TRUE IN <<x>> \o ScanOrder(S \ {x})

\* os.walk(top): top's files that pass the filter, then the walk of each
\* directory left in dirs (a symbolic link to a directory is never descended)
RECURSIVE Walk(_, _)
Walk(files, top) ==
    LET dirs == {d \in Dirs : d # <<>> /\ Parent(d) = top /\ ~Hidden(Name(d))}
        here == {f \in files : Parent(f) = top /\ EndsWith(Name(f), MD) /\ ~Hidden(Name(f))}
        RECURSIVE Each(_)
        Each(ds) == IF ds = <<>> THEN <<>> ELSE Walk(files, Head(ds)) \o Each(Tail(ds))
    IN [i \in 1..Cardinality(here) |-> RelPath(ScanOrder(here)[i])] \o Each(ScanOrder(dirs))

\* serve_index without its md_files.sort()
ListFilesUnsorted(files) == Walk(files, SCRIPT_DIR)

\* md_files after md_files.sort()
ListFiles(files) == Sort(Walk(files, SCRIPT_DIR))

ServeIndex(r) ==
    SendPage([r EXCEPT !.action = "index"], 200, ListFiles(DOMAIN fs))

\* ------------------------------------------------------------------------
\* The GET handlers.  Each gives the connection's record when the handler
\* returns: the action taken, the files it opened, the response it wrote.

\* serve_markdown(filename)
ServeMarkdown(r0, filename) ==
    LET Serve(loc) ==
            LET r == [r0 EXCEPT !.action = "viewer", !.filename = filename,
                                !.existed = Exists(DOMAIN fs, loc)]
                ro == [r EXCEPT !.opened = {loc}]
                Page(content) ==
                    IF content = DecodeError THEN SendError(ro, 500, ErrorReading(CantDecode))
                    ELSE SendPage([ro EXCEPT !.content = content], 200, Markdown(content))
            IN IF ~r.existed THEN SendError(r, 404, NotFound(filename))
               ELSE IF loc \in Dirs
               THEN SendError(r, 500, ErrorReading(IsADirectory(filename)))
               ELSE Bind(ReadText(fs[loc]), Page)
    IN Bind(Locate(filename), Serve)

\* serve_editor(filename)
ServeEditor(r0, filename) ==
    LET Serve(loc) ==
            LET r == [r0 EXCEPT !.action = "editor", !.filename = filename,
                                !.existed = Exists(DOMAIN fs, loc)]
                ro == [r EXCEPT !.opened = {loc}]
                Page(content) ==
                    IF content = DecodeError THEN SendError(ro, 500, ErrorReading(CantDecode))
                    ELSE SendPage([ro EXCEPT !.content = content], 200, Escape(content))
            IN IF ~r.existed THEN SendError(r, 404, NotFound(filename))
               ELSE IF loc \in Dirs
               THEN SendError(r, 500, ErrorReading(IsADirectory(filename)))
               ELSE Bind(ReadText(fs[loc]), Page)
    IN Bind(Locate(filename), Serve)

\* super().do_GET(): SimpleHTTPRequestHandler serves the path from the working
\* directory (SCRIPT_DIR); it drops "", "." and ".." names, redirects a directory
\* named without its trailing slash and answers 404 for what does not exist
ServeStatic(r0, path) ==
    LET r == [r0 EXCEPT !.action = "static"]
        names == SelectSeq(Split(path, "/"),
                           LAMBDA nm : nm # <<>> /\ nm # <<".">> /\ nm # <<".", ".">>)
        loc == Lookup(SCRIPT_DIR, names)
    IN IF loc = NoEntry \/ (loc \notin DOMAIN fs /\ loc \notin Dirs)
       THEN SendPage(r, 404, <<"File not found">>)
       ELSE IF loc \in Dirs /\ ~EndsWith(path, <<"/">>)
       THEN SendPage(r, 301, path \o <<"/">>)
       ELSE SendPage(r, 200, <<"static">>)

\* do_GET, for the decoded path and the route it selects
HandleGET(r, path, route) ==
    CASE route.action = "index" -> ServeIndex(r)
      [] route.action = "editor" -> ServeEditor(r, route.filename)
      [] route.action = "viewer" -> ServeMarkdown(r, route.filename)
      [] OTHER -> ServeStatic(r, path)

\* ------------------------------------------------------------------------
\* save_markdown(filename), up to and including open(filepath, "w")

SaveError(r, text) ==
    [r EXCEPT !.st = "answered", !.status = 500, !.msg = <<"success: false, error: ">> \o text]

SaveBegin(r0, filename) ==
    LET Save(loc) ==
            LET r == [r0 EXCEPT !.action = "save", !.filename = filename,
                                !.existed = Exists(DOMAIN fs, loc)]
                Open(content) ==
                    IF content = DecodeError THEN SaveError(r, CantDecode)
                    ELSE IF loc = NoEntry
                    THEN SaveError(r, <<"[Errno 2] No such file or directory">>)
                    ELSE IF loc \in Dirs THEN SaveError(r, IsADirectory(filename))
                    ELSE [r EXCEPT !.st = "writing", !.opened = {loc}, !.content = content]
            IN IF ~InsideRoot(Resolve(filename)) THEN SendError(r, 403, <<"Access denied">>)
               ELSE IF ~r0.hasLen THEN SaveError(r, <<"int() argument must be a string">>)
               ELSE Bind(Utf8Decode(r0.body), Open)
    IN Bind(Locate(filename), Save)

\* do_POST, for the route the decoded path selects; a path that matches no
\* route returns with nothing written
HandlePOST(r, route) ==
    IF route.action = "save" THEN SaveBegin(r, route.filename)
    ELSE [r EXCEPT !.st = "answered", !.action = "none", !.status = 0]

\* f.write(content) and the close that flushes it: the bytes go in at offset 0
\* of the file as it then is
WriteAt0(old, bytes) == bytes \o SubSeq(old, Len(bytes) + 1, Len(old))

\* a server that hands each connection to a thread of its own
ServerFreeThreaded == TRUE

\* TCPServer.serve_forever: process_request runs the handler to its end before
\* the loop accepts the next connection
ServerFree == \A d \in Clients : conn[d].st # "writing"

\* ------------------------------------------------------------------------
\* The requests the clients of the model send

Sl == <<"/">>
UP == <<".", ".", "/">>
PctSlash == <<"%", "2", "F">>
PctDot == <<"%", "2", "E">>
PctU == <<"%", "E", "4", "%", "B", "8", "%", "A", "D">>

GetTargets ==
    { Sl,                                         \* /
      <<"?", "a">>,                               \* ?a          (empty path)
      Sl \o n_notes,                              \* /n.md
      Sl \o n_notes \o <<"?", "a">>,              \* /n.md?a
      Sl \o <<"n">> \o PctDot \o <<"m", "d">>,    \* /n%2Emd
      Sl \o n_b,                                  \* /b.md       (missing)
      Sl \o PctU \o MD,                           \* /%E4%B8%AD.md (missing)
      Sl \o n_sub \o Sl \o n_c,                   \* /sub/c.md   (not UTF-8)
      Sl \o n_dmd,                                \* /d.md       (a directory)
      Sl \o UP \o n_secret,                       \* /../s.md
      Sl \o PctSlash \o n_notes,                  \* /%2Fn.md    (decodes to //n.md)
      Sl \o n_ln \o Sl \o n_secret,               \* /ln/s.md    (through the link)
      Sl \o n_txt,                                \* /a.txt
      Sl \o n_sub,                                \* /sub
      Sl \o n_passwd,                             \* /passwd     (missing, static)
      EDIT \o n_notes,                            \* /edit/n.md
      EDIT \o n_b,                                \* /edit/b.md  (missing)
      EDIT \o n_txt,                              \* /edit/a.txt
      EDIT \o SubSeq(EDIT, 2, 6) \o n_notes,      \* /edit/edit/n.md
      EDIT \o UP \o n_secret,                     \* /edit/../s.md
      EDIT \o PctSlash \o n_etc \o Sl \o n_secret \* /edit/%2Fetc/s.md
    }

Hi == <<"#", " ", "H", "i">>
CrLf == <<"a", "CR", "LF", "b">>
Accent == <<"xC3", "xA9">>
BadUtf8 == <<"a", "xFF">>

RawBodies == {Hi, CrLf, Accent, BadUtf8}

SaveNotes == SAVE \o n_notes

PostTargets ==
    { SAVE \o n_b,                                \* /save/b.md  (a new file)
      SAVE \o <<"n">> \o PctDot \o <<"m", "d">>,  \* /save/n%2Emd
      SAVE \o UP \o n_etc \o Sl \o n_passwd,      \* /save/../etc/passwd
      SAVE \o UP \o n_secret,                     \* /save/../s.md
      SAVE \o PctSlash \o n_etc \o Sl \o n_secret,\* /save/%2Fetc/s.md
      SAVE \o n_ln \o Sl \o n_secret,             \* /save/ln/s.md
      SAVE \o <<"x">> \o Sl \o n_b,               \* /save/x/b.md (no such directory)
      SAVE \o n_dmd,                              \* /save/d.md  (a directory)
      SAVE \o SubSeq(SAVE, 2, 6) \o n_notes,      \* /save/save/n.md
      SAVE \o n_txt,                              \* /save/a.txt
      Sl \o n_notes,                              \* /n.md
      Sl                                          \* /
    }

RawRequests ==
    {Request("GET", t, <<>>, FALSE) : t \in GetTargets}
    \cup {Request("POST", SaveNotes, b, TRUE) : b \in RawBodies}
    \cup {Request("POST", t, Hi, TRUE) : t \in PostTargets}
    \cup {Request("POST", SaveNotes, Hi, FALSE)}

\* the documents an editor page is opened on (/w/n.md, and /etc/s.md through
\* the link /w/ln), and what a user types into it
PageFiles == {n_notes, n_ln \o Sl \o n_secret}
PageTexts == {<<"b">>, <<"b", "LF", "$">>}

\* the files at start: /w/n.md, /w/sub/c.md (not UTF-8), /w/.x.md,
\* /w/.h/b.md, /w/a.txt, /s.md and /etc/s.md (both outside SCRIPT_DIR)
FS0 ==
    (<<n_w, n_notes>> :> <<"a", "CR", "LF", "BT">>)
    @@ (<<n_w, n_sub, n_c>> :> <<"xFF">>)
    @@ (<<n_w, n_dotx>> :> <<"x">>)
    @@ (<<n_w, n_hid, n_b>> :> <<"h">>)
    @@ (<<n_w, n_txt>> :> <<"t">>)
    @@ (<<n_secret>> :> <<"s">>)
    @@ (<<n_etc, n_secret>> :> <<"e">>)

PageClosed == [st |-> "closed", file |-> <<>>, text |-> <<>>, disabled |-> FALSE]

\* no connection, no page open, no save handled yet
Quiet ==
    /\ listen = <<>>
    /\ conn = [c \in Clients |-> Blank]
    /\ page = [c \in Pages |-> PageClosed]
    /\ lastSave = [l \in {} |-> <<>>]

Init == fs = FS0 /\ Quiet

\* ------------------------------------------------------------------------
\* The server

\* the file a handler has open
OpenedFile(r) == CHOOSE loc \in r.opened : TRUE

\* the server accepts the connection at the head of the queue and runs do_GET
DoGET(c) ==
    /\ listen # <<>> /\ Head(listen) = c
    /\ ServerFree
    /\ conn[c].method = "GET"
    /\ listen' = Tail(listen)
    /\ \E path \in {Unquote(UrlPath(conn[c].raw))} :
          \E route \in {RouteGET(path)} :
             \E r \in {HandleGET(conn[c], path, route)} :
                conn' = [conn EXCEPT ![c] = r]
    /\ UNCHANGED <<fs, page, lastSave>>

\* the server accepts the connection at the head of the queue and runs do_POST
\* as far as open(filepath, "w"), which empties the file
DoPOST(c) ==
    /\ listen # <<>> /\ Head(listen) = c
    /\ ServerFree
    /\ conn[c].method = "POST"
    /\ listen' = Tail(listen)
    /\ \E path \in {Unquote(UrlPath(conn[c].raw))} :
          \E route \in {RoutePOST(path)} :
             \E r \in {HandlePOST(conn[c], route)} :
                /\ conn' = [conn EXCEPT ![c] = r]
                /\ IF r.st = "writing"
                   THEN /\ fs' = (OpenedFile(r) :> <<>>) @@ fs
                        /\ lastSave' = (OpenedFile(r) :> r.body) @@ lastSave
                   ELSE UNCHANGED <<fs, lastSave>>
    /\ UNCHANGED page

\* save_markdown from f.write(content) to the 200 response
SaveWrite(c) ==
    /\ conn[c].st = "writing"
    /\ fs' = [fs EXCEPT ![OpenedFile(conn[c])] = WriteAt0(@, StoredBytes(conn[c].content))]
    /\ conn' = [conn EXCEPT ![c] = SendPage(conn[c], 200, <<"success: true">>)]
    /\ UNCHANGED <<listen, page, lastSave>>

\* ------------------------------------------------------------------------
\* A client that sends any request and waits for the answer

RawSend(r) ==
    /\ conn[RawClient].st = "idle"
    /\ conn' = [conn EXCEPT ![RawClient] = r]
    /\ listen' = Append(listen, RawClient)
    /\ UNCHANGED <<fs, page, lastSave>>

RawReceive ==
    /\ conn[RawClient].st = "answered"
    /\ conn' = [conn EXCEPT ![RawClient] = Blank]
    /\ UNCHANGED <<fs, listen, page, lastSave>>

\* ------------------------------------------------------------------------
\* An editor page: the browser loads /edit/<file>, then the Editor Client Script

PageOpen(c, file) ==
    /\ page[c].st = "closed"
    /\ conn[c].st = "idle"
    /\ conn' = [conn EXCEPT ![c] = Request("GET", EDIT \o file, <<>>, FALSE)]
    /\ listen' = Append(listen, c)
    /\ page' = [page EXCEPT ![c] = [PageClosed EXCEPT !.st = "loading", !.file = file]]
    /\ UNCHANGED <<fs, lastSave>>

PageLoaded(c) ==
    /\ page[c].st = "loading"
    /\ conn[c].st = "answered"
    /\ page' = [page EXCEPT ![c] =
                  IF conn[c].status = 200
                  THEN [@ EXCEPT !.st = "open", !.text = TextareaValue(conn[c].msg)]
                  ELSE PageClosed]
    /\ conn' = [conn EXCEPT ![c] = Blank]
    /\ UNCHANGED <<fs, listen, lastSave>>

\* the user edits the text area
Type(c, text) ==
    /\ page[c].st = "open"
    /\ page[c].text # text
    /\ page' = [page EXCEPT ![c].text = text]
    /\ UNCHANGED <<fs, listen, conn, lastSave>>

\* saveFile enabling the button on an ok response only
DisabledUnlessOk(r) == r.status # 200

\* btn.disabled once saveFile has run to its end on the request's outcome r
\* (r.status: 200 for an ok response, 0 when fetch rejected): the finally
\* block enables the button whatever happened
DisabledAfterSave(r) == FALSE

\* saveFile() up to its await: a click reaches only an enabled button
Click(c) ==
    /\ page[c].st = "open"
    /\ ~page[c].disabled
    /\ conn[c].st = "idle"
    /\ page' = [page EXCEPT ![c].disabled = TRUE]
    /\ conn' = [conn EXCEPT ![c] =
                  Request("POST", SAVE \o page[c].file, Utf8Encode(page[c].text), TRUE)]
    /\ listen' = Append(listen, c)
    /\ UNCHANGED <<fs, lastSave>>

Saving(c) == page[c].st = "open" /\ conn[c].st # "idle"

\* saveFile() after its await: the response is ok or not, or (nothing came
\* back) fetch rejected; the finally block enables the button in each case
SaveSettled(c) ==
    /\ Saving(c)
    /\ conn[c].st = "answered"
    /\ page' = [page EXCEPT ![c].disabled = DisabledAfterSave(conn[c])]
    /\ conn' = [conn EXCEPT ![c] = Blank]
    /\ UNCHANGED <<fs, listen, lastSave>>

\* the connection fails before the server accepts it: fetch rejects, and the
\* catch and finally blocks run
NetFail(c) ==
    /\ Saving(c)
    /\ conn[c].st = "queued"
    /\ listen' = SelectSeq(listen, LAMBDA d : d # c)
    /\ page' = [page EXCEPT ![c].disabled = DisabledAfterSave(Blank)]
    /\ conn' = [conn EXCEPT ![c] = Blank]
    /\ UNCHANGED <<fs, lastSave>>

Next ==
    \/ \E r \in RawRequests : RawSend(r)
    \/ RawReceive
    \/ \E c \in Clients : DoGET(c)
    \/ \E c \in Clients : DoPOST(c)
    \/ \E c \in Clients : SaveWrite(c)
    \/ \E c \in Pages, f \in PageFiles : PageOpen(c, f)
    \/ \E c \in Pages : PageLoaded(c)
    \/ \E c \in Pages, t \in PageTexts : Type(c, t)
    \/ \E c \in Pages : Click(c)
    \/ \E c \in Pages : SaveSettled(c)
    \/ \E c \in Pages : NetFail(c)

Spec == Init /\ [][Next]_vars

\* one step of the server: it accepts the next connection or goes on with
\* the handler it is in
ServerStep == \E c \in Clients : DoGET(c) \/ DoPOST(c) \/ SaveWrite(c)

\* serve_forever keeps accepting and running handlers, and each page's
\* browser runs saveFile's continuation once fetch has settled
Fairness ==
    /\ WF_vars(ServerStep)
    /\ \A c \in Pages : WF_vars(SaveSettled(c))

\* The editor pages with the server, and one other client that saves to the
\* document the pages edit
NextEditor ==
    \/ RawSend(Request("POST", SaveNotes, Hi, TRUE))
    \/ RawReceive
    \/ ServerStep
    \/ \E c \in Pages, f \in PageFiles : PageOpen(c, f)
    \/ \E c \in Pages : PageLoaded(c)
    \/ \E c \in Pages, t \in PageTexts : Type(c, t)
    \/ \E c \in Pages : Click(c)
    \/ \E c \in Pages : SaveSettled(c)
    \/ \E c \in Pages : NetFail(c)

SpecEditor == Init /\ [][NextEditor]_vars /\ Fairness

\* ------------------------------------------------------------------------
\* The index over every directory tree: any set of these files may exist
\* (n.md, b.md, .x.md, a.txt, sub/c.md, sub/b.md, sub/.x.md, sub/a.txt,
\* .h/b.md, sub/.h/b.md, d.md/c.md under /w, and /etc/s.md beside it)

TreeFiles ==
    { <<n_w, n_notes>>, <<n_w, n_b>>, <<n_w, n_dotx>>, <<n_w, n_txt>>,
      <<n_w, n_sub, n_c>>, <<n_w, n_sub, n_b>>, <<n_w, n_sub, n_dotx>>,
      <<n_w, n_sub, n_txt>>, <<n_w, n_hid, n_b>>, <<n_w, n_sub, n_hid, n_b>>,
      <<n_w, n_dmd, n_c>>, <<n_etc, n_secret>> }

InitIndex ==
    /\ \E S \in SUBSET TreeFiles : fs = [l \in S |-> <<"x">>]
    /\ Quiet

NextIndex ==
    \/ RawSend(Request("GET", Sl, <<>>, FALSE))
    \/ DoGET(RawClient)
    \/ RawReceive

SpecIndex == InitIndex /\ [][NextIndex]_vars

\* ------------------------------------------------------------------------
\* The editor page over every content of /w/n.md up to MaxLen characters

EscAlphabet == {"a", "LF", "BSL", "BT", "$"}

Contents == UNION {[1..k -> EscAlphabet] : k \in 0..MaxLen}

InitEscape ==
    /\ \E C \in Contents : fs = (<<n_w, n_notes>> :> C) @@ FS0
    /\ Quiet

NextEscape ==
    \/ RawSend(Request("GET", EDIT \o n_notes, <<>>, FALSE))
    \/ DoGET(RawClient)
    \/ RawReceive

SpecEscape == InitEscape /\ [][NextEscape]_vars

\* ------------------------------------------------------------------------
\* An editor page opened on /w/n.md and saved with nothing typed, over every
\* content of the file up to MaxLen characters; /w/b.md starts as a copy of
\* /w/n.md and no request names it

InitReopen ==
    /\ \E C \in Contents :
          fs = (<<n_w, n_notes>> :> C) @@ (<<n_w, n_b>> :> C) @@ FS0
    /\ Quiet

NextReopen ==
    \/ \E c \in Pages : PageOpen(c, n_notes)
    \/ ServerStep
    \/ \E c \in Pages : PageLoaded(c)
    \/ \E c \in Pages : Click(c)
    \/ \E c \in Pages : SaveSettled(c)

SpecReopen == InitReopen /\ [][NextReopen]_vars

\* ------------------------------------------------------------------------
\* Notions the properties below share

\* a location is SCRIPT_DIR or below it
UnderRoot(loc) == Len(loc) >= 1 /\ loc[1] = n_w

\* the connection's request reached a handler, which has returned
Answered(c) == conn[c].st = "answered"

DecodedPath(c) == Unquote(UrlPath(conn[c].raw))

\* the part of a path after its first six characters (/edit/ or /save/)
Remainder(path) == SubSeq(path, 7, Len(path))

Contains(s, part) == \E i \in 1..(Len(s) - Len(part) + 1) : SubSeq(s, i, i + Len(part) - 1) = part

\* ------------------------------------------------------------------------
\* C1: every file a document request (viewer, editor, save) opens lies in
\* SCRIPT_DIR or below it.  serve_markdown and serve_editor open
\* SCRIPT_DIR / filename unchecked, so GET /../s.md reads /s.md.
C1_OpensOnlyUnderRoot ==
    \A c \in Clients :
        conn[c].action \in {"viewer", "editor", "save"}
            => \A loc \in conn[c].opened : UnderRoot(loc)

C3_SaveRoundTrip ==
    [][\A c \in Clients :
          /\ SaveWrite(c) =>
                /\ conn'[c].status = 200
                /\ \A loc \in conn[c].opened : fs'[loc] = conn[c].body
          /\ (/\ DoGET(c)
              /\ conn'[c].action \in {"viewer", "editor"}
              /\ conn'[c].status = 200)
                => \A loc \in conn'[c].opened \cap DOMAIN lastSave :
                       Utf8Encode(conn'[c].content) = lastSave[loc]]_vars

\* ------------------------------------------------------------------------
\* C4: every request the server handles ends with a response written.  A POST
\* that matches no route returns from do_POST with nothing written, and
\* send_error raises out of the handler on a message outside Latin-1.
C4_EveryRequestAnswered ==
    \A c \in Clients : Answered(c) => conn[c].status \in {200, 301, 403, 404, 500}

\* ------------------------------------------------------------------------
\* C5: a viewer or editor request for a file that does not exist is answered
\* 404 with the filename in the message; for a file that exists, 500 with the
\* exception text when reading fails, and 200 only when it was read.  For a
\* missing file whose name is outside Latin-1 send_error raises: no response.
C5_ViewerEditorStatus ==
    \A c \in Clients :
        (Answered(c) /\ conn[c].action \in {"viewer", "editor"}) =>
            /\ ~conn[c].existed =>
                  conn[c].status = 404 /\ Contains(conn[c].msg, conn[c].filename)
            /\ conn[c].existed =>
                  \/ conn[c].status = 200 /\ conn[c].opened # {}
                  \/ conn[c].status = 500 /\ StartsWith(conn[c].msg, <<"Error reading file: ">>)

\* ------------------------------------------------------------------------
\* C6: routing.  What the handler did with a request is what the table's
\* first matching row says of its percent-decoded path.

Handled(c) == conn[c].st \in {"writing", "answered"}

\* f is path without its leading slashes
StrippedOf(f, path) ==
    \E k \in 0..Len(path) :
        /\ \A i \in 1..k : path[i] = "/"
        /\ f = SubSeq(path, k + 1, Len(path))
        /\ (f = <<>> \/ f[1] # "/")

RoutedByTable(c) ==
    LET path == DecodedPath(c)
        a == conn[c].action
        f == conn[c].filename
        root == path = <<"/">> \/ path = <<>>
        edit == StartsWith(path, EDIT) /\ EndsWith(path, MD)
    IN /\ conn[c].method = "GET" =>
            /\ a \in {"index", "editor", "viewer", "static"}
            /\ a = "index" <=> root
            /\ a = "editor" <=> edit
            /\ a = "viewer" <=> (EndsWith(path, MD) /\ ~edit)
            /\ a = "static" <=> (~root /\ ~EndsWith(path, MD))
            /\ a = "editor" => f = Remainder(path)
            /\ a = "viewer" => StrippedOf(f, path)
       /\ conn[c].method = "POST" =>
            /\ a \in {"save", "none"}
            /\ a = "save" <=> (StartsWith(path, SAVE) /\ EndsWith(path, MD))
            /\ a = "save" => f = Remainder(path)

\* C6 as stated: every request, GET or POST, selects exactly one of the five
\* actions, by the first matching row.  A POST that matches no row (POST /,
\* POST /save/a.txt) selects none.
C6_ExactlyOneOfFiveActions ==
    \A c \in Clients :
        Handled(c) =>
            /\ RoutedByTable(c)
            /\ conn[c].action \in {"index", "editor", "viewer", "static", "save"}

\* C6 as amended: every GET selects exactly one of Index, Editor, Viewer and
\* static fallback, by the first matching row; a POST selects Save exactly
\* when its decoded path starts with /save/ and ends with .md, and selects no
\* action otherwise.  A GET /edit/<name>.md is never served by the Viewer.
C6_RoutedByFirstMatch ==
    \A c \in Clients : Handled(c) => RoutedByTable(c)

\* GET /edit/edit/n.md went to the Editor, for edit/n.md
C6_Witness ==
    \E c \in Clients :
        /\ Answered(c)
        /\ conn[c].raw = EDIT \o SubSeq(EDIT, 2, 6) \o n_notes
        /\ conn[c].action = "editor"
        /\ conn[c].filename = SubSeq(EDIT, 2, 6) \o n_notes

\* ------------------------------------------------------------------------
\* C7: the Index lists, in ascending order, the relative paths of exactly the
\* files under SCRIPT_DIR whose name ends in .md and none of whose path
\* components (directories or the file name) begins with a dot; an empty
\* list is a valid answer.

Listable(loc) ==
    /\ UnderRoot(loc) /\ Len(loc) >= 2
    /\ EndsWith(loc[Len(loc)], MD)
    /\ \A i \in 2..Len(loc) : loc[i][1] # "."

C7_IndexListing ==
    \A c \in Clients :
        (Answered(c) /\ conn[c].action = "index") =>
            LET L == conn[c].msg
            IN /\ conn[c].status = 200
               /\ \A i, j \in 1..Len(L) : i < j => StrLess(L[i], L[j])
               /\ {L[i] : i \in 1..Len(L)} = {RelPath(f) : f \in {g \in DOMAIN fs : Listable(g)}}

\* a root holding n.md, d.md/c.md and .h/b.md (and more that is not listed)
\* was listed as d.md/c.md, n.md
C7_Witness ==
    \E c \in Clients :
        /\ Answered(c) /\ conn[c].action = "index"
        /\ {<<n_w, n_notes>>, <<n_w, n_hid, n_b>>, <<n_w, n_dmd, n_c>>} \subseteq DOMAIN fs
        /\ conn[c].msg = <<n_dmd \o Sl \o n_c, n_notes>>

\* ------------------------------------------------------------------------
\* C8: the content the Editor page embeds is the file's content C with every
\* backslash, backtick and dollar sign preceded by a backslash, and
\* unescaping what is embedded gives C back.

RECURSIVE EachEscaped(_)
EachEscaped(C) ==
    IF C = <<>> THEN <<>>
    ELSE (IF Head(C) \in {"BSL", "BT", "$"} THEN <<"BSL", Head(C)>> ELSE <<Head(C)>>)
         \o EachEscaped(Tail(C))

RECURSIVE Unescape(_)
Unescape(E) ==
    IF E = <<>> THEN <<>>
    ELSE IF Head(E) = "BSL" /\ Len(E) >= 2 THEN <<E[2]>> \o Unescape(SubSeq(E, 3, Len(E)))
    ELSE <<Head(E)>> \o Unescape(Tail(E))

C9_LastWriteWins ==
    /\ Cardinality({c \in Clients : conn[c].st = "writing"}) <= 1
    /\ (\A c \in Clients : conn[c].st # "writing") =>
           \A loc \in DOMAIN lastSave : fs[loc] = lastSave[loc]

\* two clients' saves of different bodies to the same file have both been
\* answered 200
C9_Witness ==
    \E c, d \in Clients :
        /\ c # d
        /\ Answered(c) /\ Answered(d)
        /\ conn[c].action = "save" /\ conn[d].action = "save"
        /\ conn[c].status = 200 /\ conn[d].status = 200
        /\ conn[c].opened = conn[d].opened
        /\ conn[c].body # conn[d].body

\* ------------------------------------------------------------------------
\* C10: while a page's POST is in flight its save button is disabled (so the
\* button never has two saves in flight), and a disabled button is enabled
\* again whatever the outcome: ok response, non-ok response, failed request.
C10_ButtonProtocol ==
    /\ [](\A c \in Pages : Saving(c) => page[c].disabled)
    /\ \A c \in Pages : page[c].disabled ~> ~page[c].disabled

\* a page's save has been answered 403 and its button is still disabled
C10_Witness ==
    \E c \in Pages :
        /\ Saving(c) /\ page[c].disabled
        /\ Answered(c) /\ conn[c].status = 403

\* ------------------------------------------------------------------------
\* C11: opening a file in the editor and saving the text area's initial
\* value, unedited, leaves the file's stored content as it was: whenever no
\* save is under way, /w/n.md still equals its untouched copy /w/b.md.  The
\* text area holds the escaped content, which nothing unescapes, so a file
\* holding "$" is saved back as a backslash and "$".
C11_OpenAndSaveKeepsContent ==
    (\A c \in Clients : conn[c].st # "writing")
        => fs[<<n_w, n_notes>>] = fs[<<n_w, n_b>>]

====
